---- MODULE Spec2Model ----
(***************************************************************************)
(* Model of src/evaluation/term.rs: the Term node of the evaluator, its    *)
(* value variants, the conversion constructors, the trusted and fallible   *)
(* accessor families, the shape tests, the derived equality and Display.   *)
(*                                                                         *)
(* One term is under construction at a time.  A collaborator builds it     *)
(* with new()/From, appends children to sub_terms, and calls accessors,    *)
(* shape tests, == and Display on it.  A panic ends the run.               *)
(***************************************************************************)
EXTENDS Integers, Sequences, FiniteSets, TLC

VARIABLES term, made, res, pc

vars == <<term, made, res, pc>>

\* Largest number of nodes (root, children, grandchildren ...) of the term.
MaxNodes == 3

(***************************************************************************)
(* TermValue: the closed set of value variants and a few payloads of each. *)
(***************************************************************************)
Tags == {"Bool", "Int", "PrimitiveFn", "Str", "Sym", "Unit"}

PayloadOf(tag) ==
    CASE tag = "Bool" -> {FALSE, TRUE}
      [] tag = "Int" -> {0, 42}
      [] tag = "PrimitiveFn" -> {"car"}
      [] tag = "Str" -> {"a"}
      [] tag = "Sym" -> {"a"}
      [] tag = "Unit" -> {"Ignore"}

TermValue(tag, val) == [tag |-> tag, val |-> val]

Values == UNION {{TermValue(tag, val) : val \in PayloadOf(tag)} : tag \in Tags}

UnitIgnore == TermValue("Unit", "Ignore")

(***************************************************************************)
(* Term::new and impl From<$ty> for Term.                                  *)
(***************************************************************************)
Term_new_hasValue ==
    [has_value |-> TRUE, sub_terms |-> <<>>, value |-> UnitIgnore, value_ref |-> UnitIgnore]

Term_new ==
    [has_value |-> FALSE, sub_terms |-> <<>>, value |-> UnitIgnore, value_ref |-> UnitIgnore]

Term_from_keepsUnit(v) ==
    [Term_new EXCEPT !.has_value = TRUE]

Term_from(v) ==
    [Term_new EXCEPT !.has_value = TRUE, !.value = TermValue(v.tag, v.val)]

\* The terms a caller can hand over as an operand: any freshly built leaf.
Operands == {Term_new} \cup {Term_from(v) : v \in Values}

(***************************************************************************)
(* Shape tests.                                                            *)
(***************************************************************************)
is_branch_byFlag(t) == ~t.has_value

is_branch(t) == t.sub_terms # <<>>

len(t) == Len(t.sub_terms)

\* sub_terms.push_back(child), done by the parser/builder.
push_back(t, child) == [t EXCEPT !.sub_terms = Append(@, child)]

RECURSIVE Size(_)
RECURSIVE SizeAll(_)
SizeAll(s) == IF s = <<>> THEN 0 ELSE Size(Head(s)) + SizeAll(Tail(s))

Size(t) == 1 + SizeAll(t.sub_terms)

(***************************************************************************)
(* Results of calls.                                                       *)
(***************************************************************************)
Ok(val) == [kind |-> "Ok", val |-> val]

Err(errorKind) == [kind |-> "Err", val |-> errorKind]

Panic == [kind |-> "Panic", val |-> "panic"]

Returned(val) == [kind |-> "Ret", val |-> val]

(***************************************************************************)
(* impl_access!: the four accessors at variant W.  The mutable accessors   *)
(* return a reference to the payload; WriteThrough is the caller's store   *)
(* through that reference.                                                 *)
(***************************************************************************)
access(t, W) == IF t.value.tag = W THEN Ok(t.value.val) ELSE Panic

access_mut_asError(t, W) ==
    IF t.value.tag = W THEN Ok(t.value.val) ELSE Err("TypeMismatch")

access_mut(t, W) == IF t.value.tag = W THEN Ok(t.value.val) ELSE Panic

try_access_unchecked(t, W) == Ok(t.value.val)

try_access(t, W) ==
    IF t.value.tag = W THEN Ok(t.value.val) ELSE Err("TypeMismatch")

try_access_mut_panics(t, W) ==
    IF t.value.tag = W THEN Ok(t.value.val) ELSE Panic

try_access_mut(t, W) ==
    IF t.value.tag = W THEN Ok(t.value.val) ELSE Err("TypeMismatch")

WriteThrough_setsFlag(t, v) == [t EXCEPT !.value.val = v, !.has_value = TRUE]

WriteThrough(t, v) == [t EXCEPT !.value.val = v]

(***************************************************************************)
(* derive(PartialEq, Eq) on TermValue and Term.                            *)
(***************************************************************************)
TermValueEq(a, b) == a.tag = b.tag /\ a.val = b.val

RECURSIVE TermEq(_, _)
RECURSIVE ListEq(_, _)
ListEq(s, t) ==
    /\ Len(s) = Len(t)
    /\ \A i \in 1..Len(s) : TermEq(s[i], t[i])

TermEq_skipsValue(a, b) ==
    /\ a.has_value = b.has_value
    /\ ListEq(a.sub_terms, b.sub_terms)
    /\ TermValueEq(a.value_ref, b.value_ref)

TermEq(a, b) ==
    /\ a.has_value = b.has_value
    /\ ListEq(a.sub_terms, b.sub_terms)
    /\ TermValueEq(a.value, b.value)
    /\ TermValueEq(a.value_ref, b.value_ref)

(***************************************************************************)
(* derive(Debug) on TermValue and Term, Debug of LinkedList and RefCell,   *)
(* and impl Display for Term.                                              *)
(***************************************************************************)
DebugBool(b) == IF b THEN "true" ELSE "false"

\* Debug of the collaborators' opaque payload types.
DebugNativeFn(f) == "NativeFn(" \o f \o ")"

DebugSymbol(s) == "Symbol(" \o s \o ")"

DebugPayload(v) ==
    CASE v.tag = "Bool" -> DebugBool(v.val)
      [] v.tag = "Int" -> ToString(v.val)
      [] v.tag = "PrimitiveFn" -> DebugNativeFn(v.val)
      [] v.tag = "Str" -> "\"" \o v.val \o "\""
      [] v.tag = "Sym" -> DebugSymbol(v.val)
      [] v.tag = "Unit" -> v.val

DebugTermValue(v) == v.tag \o "(" \o DebugPayload(v) \o ")"

RECURSIVE DebugTerm(_)
RECURSIVE DebugEntries(_)
DebugEntries(s) ==
    IF s = <<>> THEN ""
    ELSE IF Len(s) = 1 THEN DebugTerm(Head(s))
    ELSE DebugTerm(Head(s)) \o ", " \o DebugEntries(Tail(s))

DebugLinkedList(s) == "[" \o DebugEntries(s) \o "]"

DebugTerm(t) ==
    "Term { has_value: " \o DebugBool(t.has_value)
        \o ", sub_terms: " \o DebugLinkedList(t.sub_terms)
        \o ", value: " \o DebugTermValue(t.value)
        \o ", value_ref: RefCell { value: " \o DebugTermValue(t.value_ref) \o " } }"

Display_byShape(t) ==
    IF is_branch(t) THEN DebugLinkedList(t.sub_terms) ELSE DebugTermValue(t.value)

Display(t) ==
    IF ~t.has_value THEN DebugLinkedList(t.sub_terms) ELSE DebugTermValue(t.value)

(***************************************************************************)
(* The record of how the term was built, and of the last call.             *)
(***************************************************************************)
Made(ctor, arg, pushes, written) ==
    [ctor |-> ctor, arg |-> arg, pushes |-> pushes, written |-> written]

Call(op, want, arg, out) == [op |-> op, want |-> want, arg |-> arg, out |-> out]

NoCall == Call("-", "-", Term_new, Returned("unit"))

\* The program starts with a default-constructed term and no call made yet.
Init ==
    /\ term = Term_new
    /\ made = Made("new", UnitIgnore, 0, FALSE)
    /\ res = NoCall
    /\ pc = "run"

(***************************************************************************)
(* Construction.                                                           *)
(***************************************************************************)
New ==
    /\ pc = "run"
    /\ term' = Term_new
    /\ made' = Made("new", UnitIgnore, 0, FALSE)
    /\ res' = Call("new", "-", Term_new, Returned("term"))
    /\ pc' = "returned"

From(v) ==
    /\ pc = "run"
    /\ term' = Term_from(v)
    /\ made' = Made("from", v, 0, FALSE)
    /\ res' = Call("from", v.tag, Term_new, Returned("term"))
    /\ pc' = "returned"

\* The builder appends a freshly built leaf to the term's children.
Push(child) ==
    /\ pc = "run"
    /\ Size(term) + Size(child) <= MaxNodes
    /\ term' = push_back(term, child)
    /\ made' = [made EXCEPT !.pushes = @ + 1]
    /\ res' = Call("push_back", "-", child, Returned("unit"))
    /\ pc' = "returned"

\* The builder makes the term the first child of a new term.
Enclose ==
    /\ pc = "run"
    /\ Size(term) + 1 <= MaxNodes
    /\ term' = push_back(Term_new, term)
    /\ made' = Made("new", UnitIgnore, 1, FALSE)
    /\ res' = Call("push_back", "-", term, Returned("unit"))
    /\ pc' = "returned"

(***************************************************************************)
(* Calls on the term.                                                      *)
(***************************************************************************)
Fault(out) == IF out.kind = "Panic" THEN "panicked" ELSE "returned"

DoAccess(W) ==
    /\ pc = "run"
    /\ res' = Call("access", W, Term_new, access(term, W))
    /\ pc' = Fault(res'.out)
    /\ UNCHANGED <<term, made>>

DoTryAccess(W) ==
    /\ pc = "run"
    /\ res' = Call("try_access", W, Term_new, try_access(term, W))
    /\ pc' = Fault(res'.out)
    /\ UNCHANGED <<term, made>>

DoAccessMut(W, v) ==
    /\ pc = "run"
    /\ res' = Call("access_mut", W, Term_new, access_mut(term, W))
    /\ pc' = Fault(res'.out)
    /\ IF res'.out.kind = "Ok"
         THEN term' = WriteThrough(term, v) /\ made' = [made EXCEPT !.written = TRUE]
         ELSE UNCHANGED <<term, made>>

DoTryAccessMut(W, v) ==
    /\ pc = "run"
    /\ res' = Call("try_access_mut", W, Term_new, try_access_mut(term, W))
    /\ pc' = Fault(res'.out)
    /\ IF res'.out.kind = "Ok"
         THEN term' = WriteThrough(term, v) /\ made' = [made EXCEPT !.written = TRUE]
         ELSE UNCHANGED <<term, made>>

DoIsBranch ==
    /\ pc = "run"
    /\ res' = Call("is_branch", "-", Term_new, Returned(is_branch(term)))
    /\ pc' = "returned"
    /\ UNCHANGED <<term, made>>

DoLen ==
    /\ pc = "run"
    /\ res' = Call("len", "-", Term_new, Returned(len(term)))
    /\ pc' = "returned"
    /\ UNCHANGED <<term, made>>

DoEq(other) ==
    /\ pc = "run"
    /\ res' = Call("eq", "-", other, Returned(TermEq(term, other)))
    /\ pc' = "returned"
    /\ UNCHANGED <<term, made>>

DoDisplay ==
    /\ pc = "run"
    /\ res' = Call("fmt", "-", Term_new, Returned(Display(term)))
    /\ pc' = "returned"
    /\ UNCHANGED <<term, made>>

\* The caller has used the result of the last call and goes on.
Continue ==
    /\ pc = "returned"
    /\ pc' = "run"
    /\ res' = NoCall
    /\ UNCHANGED <<term, made>>

Next ==
    \/ Continue
    \/ New
    \/ \E v \in Values : From(v)
    \/ \E child \in Operands : Push(child)
    \/ Enclose
    \/ \E W \in Tags : DoAccess(W)
    \/ \E W \in Tags : DoTryAccess(W)
    \/ \E W \in Tags : \E v \in PayloadOf(W) : DoAccessMut(W, v)
    \/ \E W \in Tags : \E v \in PayloadOf(W) : DoTryAccessMut(W, v)
    \/ DoIsBranch
    \/ DoLen
    \/ \E other \in Operands : DoEq(other)
    \/ DoDisplay

Spec == Init /\ [][Next]_vars

TypeOK ==
    /\ term.has_value \in BOOLEAN
    /\ term.value.tag \in Tags
    /\ term.value.val \in PayloadOf(term.value.tag)
    /\ term.value_ref.tag \in Tags
    /\ term.value_ref.val \in PayloadOf(term.value_ref.tag)
    /\ Size(term) <= MaxNodes
    /\ pc \in {"run", "returned", "panicked"}

(***************************************************************************)
(* Properties.                                                             *)
(***************************************************************************)
\* The term is as its constructor left it: nothing appended, nothing written.
Fresh == made.pushes = 0 /\ ~made.written

FreshFrom == made.ctor = "from" /\ Fresh

FreshNew == made.ctor = "new" /\ Fresh

\* Two call results are the same: the kind first, then what it carries.
Same(out, expected) == out.kind = expected.kind /\ out.val = expected.val

\* The value v is of variant tag with payload val.
Holds(v, tag, val) == v.tag = tag /\ v.val = val

\* The operand t is the leaf wrapped from v, with nothing appended.
IsWrapped(t, v) ==
    /\ t.has_value
    /\ t.sub_terms = <<>>
    /\ Holds(t.value, v.tag, v.val)
    /\ Holds(t.value_ref, "Unit", "Ignore")

\* C1: a term freshly wrapped from a value v of variant V, read with the
\* trusted accessor at V, gives v back and does not fault.
C1_RoundTrip ==
    FreshFrom =>
        /\ Same(access(term, made.arg.tag), Ok(made.arg.val))
        /\ (res.op = "access" /\ res.want = made.arg.tag) =>
               (Same(res.out, Ok(made.arg.val)) /\ pc # "panicked")

C1_Witness ==
    /\ FreshFrom
    /\ Holds(made.arg, "Int", 42)
    /\ res.op = "access" /\ res.want = "Int"
    /\ Same(res.out, Ok(42))
    /\ pc = "returned"

\* C2: on a freshly wrapped V-term, try_access at W is Ok(v) when W = V and
\* the TypeMismatch error when W # V, for every pair (V, W).
C2_FreshTryAccess ==
    FreshFrom =>
        /\ \A W \in Tags :
              Same(try_access(term, W),
                   IF W = made.arg.tag THEN Ok(made.arg.val) ELSE Err("TypeMismatch"))
        /\ res.op = "try_access" =>
              Same(res.out, IF res.want = made.arg.tag
                              THEN Ok(made.arg.val) ELSE Err("TypeMismatch"))

C2_Witness ==
    /\ FreshFrom
    /\ Holds(made.arg, "Int", 42)
    /\ res.op = "try_access" /\ res.want = "Str"
    /\ Same(res.out, Err("TypeMismatch"))
    /\ pc = "returned"

Total(out, held, W) ==
    /\ out.kind \in {"Ok", "Err"}
    /\ out.kind = "Ok" <=> held = W
    /\ out.kind = "Err" => out.val = "TypeMismatch"

\* C3: on every reachable term and at every variant W the fallible accessors
\* never fault: they succeed exactly when the held variant is W and give the
\* TypeMismatch error otherwise.
C3_FallibleTotal ==
    /\ \A W \in Tags :
          /\ Total(try_access(term, W), term.value.tag, W)
          /\ Total(try_access_mut(term, W), term.value.tag, W)
    /\ res.op \in {"try_access", "try_access_mut"} =>
          (pc # "panicked" /\ res.out.kind \in {"Ok", "Err"})

C3_Witness ==
    /\ is_branch(term)
    /\ ~term.has_value
    /\ res.op = "try_access_mut" /\ res.want = "Int"
    /\ Same(res.out, Err("TypeMismatch"))
    /\ pc = "returned"

Trusted(out, held, W) ==
    /\ out.kind \in {"Ok", "Panic"}
    /\ out.kind = "Panic" <=> held # W

\* C4: the trusted accessors at a variant other than the held one return
\* nothing and no TypeMismatch error: they panic; and they panic only then.
C4_TrustedFaults ==
    /\ \A W \in Tags :
          /\ Trusted(access(term, W), term.value.tag, W)
          /\ Trusted(access_mut(term, W), term.value.tag, W)
    /\ res.op \in {"access", "access_mut"} =>
          /\ res.out.kind \in {"Ok", "Panic"}
          /\ pc = "panicked" <=> res.out.kind = "Panic"
          /\ res.out.kind = "Panic" => res.want # term.value.tag
    /\ pc = "panicked" => res.op \in {"access", "access_mut"}

C4_Witness ==
    /\ pc = "panicked"
    /\ res.op = "access_mut" /\ res.want = "Bool"
    /\ term.value.tag = "Int"
    /\ Same(res.out, Panic)

\* C5: is_branch() holds exactly when children were appended and len() is
\* the number of children appended, whatever has_value and the value are; a
\* fresh leaf is no branch and has length 0.
C5_Shape ==
    /\ is_branch(term) <=> made.pushes >= 1
    /\ len(term) = made.pushes
    /\ Fresh => (~is_branch(term) /\ len(term) = 0)
    /\ res.op = "is_branch" => (res.out.val <=> made.pushes >= 1)
    /\ res.op = "len" => res.out.val = made.pushes

C5_Witness ==
    /\ made.pushes = 2
    /\ term.has_value
    /\ res.op = "len"
    /\ res.out.val = 2

\* C6: every reachable term is exactly one of a leaf with a value (has_value
\* set, no children) and a branch with children (has_value clear, children).
C6_LeafXorBranch ==
    (term.has_value /\ term.sub_terms = <<>>) # (~term.has_value /\ term.sub_terms # <<>>)

\* C7: a freshly wrapped leaf equals the leaf wrapped from the same value and
\* differs from every leaf wrapped from a value of another variant.
C7_LeafEquality ==
    FreshFrom =>
        /\ \A w \in Values :
              /\ (w.tag = made.arg.tag /\ w.val = made.arg.val) => TermEq(term, Term_from(w))
              /\ w.tag # made.arg.tag => ~TermEq(term, Term_from(w))
        /\ (res.op = "eq" /\ res.arg.has_value /\ res.arg.value.tag # made.arg.tag) =>
              res.out.val = FALSE

C7_Witness ==
    /\ FreshFrom
    /\ Holds(made.arg, "Int", 0)
    /\ res.op = "eq"
    /\ IsWrapped(res.arg, UnitIgnore)
    /\ res.out.val = FALSE

Rendering(t) ==
    IF t.has_value THEN DebugTermValue(t.value) ELSE DebugLinkedList(t.sub_terms)

\* C8: Display shows the children when has_value is clear and the value when
\* it is set, whether or not there are children.
C8_Display ==
    /\ Display(term) = Rendering(term)
    /\ res.op = "fmt" => res.out.val = Rendering(term)
    /\ (~term.has_value /\ term.sub_terms = <<>>) => Display(term) = "[]"

C8_Witness ==
    /\ res.op = "fmt"
    /\ term.has_value
    /\ is_branch(term)
    /\ Holds(term.value, "Int", 42)
    /\ res.out.val = "Int(42)"

OnlyPayload(W, v) ==
    IF term.value.tag = W
      THEN /\ Same(access(term', W), Ok(v))
           /\ Same(try_access(term', W), Ok(v))
           /\ term'.value.tag = W
           /\ term'.has_value = term.has_value
           /\ term'.sub_terms = term.sub_terms
           /\ term'.value_ref = term.value_ref
      ELSE term' = term

\* C9: a write through access_mut or a successful try_access_mut changes the
\* payload only; a mismatching try_access_mut gives TypeMismatch and changes
\* nothing.
C9_MutFrame ==
    [][\A W \in Tags : \A v \in PayloadOf(W) :
          /\ DoAccessMut(W, v) => OnlyPayload(W, v)
          /\ DoTryAccessMut(W, v) =>
                /\ OnlyPayload(W, v)
                /\ term.value.tag # W => Same(res'.out, Err("TypeMismatch"))]_vars

C9_Witness ==
    /\ res.op = "try_access_mut" /\ res.want = "Bool"
    /\ Same(res.out, Ok(FALSE))
    /\ Holds(term.value, "Bool", TRUE)
    /\ term.has_value
    /\ is_branch(term)
    /\ made.written

\* C10: a default term and a wrapped unit sentinel both have no children and
\* both read as Ignore at Unit, but differ in has_value, are not equal and
\* render differently.
C10_DefaultVsUnit ==
    /\ FreshNew =>
          /\ len(term) = 0
          /\ Same(access(term, "Unit"), Ok("Ignore"))
          /\ Same(try_access(term, "Unit"), Ok("Ignore"))
          /\ ~term.has_value
          /\ ~TermEq(term, Term_from(UnitIgnore))
          /\ Display(term) = "[]"
          /\ Display(term) # Display(Term_from(UnitIgnore))
    /\ (FreshFrom /\ made.arg.tag = "Unit") =>
          /\ len(term) = 0
          /\ Same(access(term, "Unit"), Ok("Ignore"))
          /\ Same(try_access(term, "Unit"), Ok("Ignore"))
          /\ term.has_value
          /\ ~TermEq(term, Term_new)
          /\ Display(term) = "Unit(Ignore)"
    /\ (res.op = "eq" /\ FreshNew /\ IsWrapped(res.arg, UnitIgnore)) => res.out.val = FALSE

C10_Witness ==
    /\ FreshNew
    /\ res.op = "eq"
    /\ IsWrapped(res.arg, UnitIgnore)
    /\ res.out.val = FALSE
====
